---- MODULE Spec2Model ----
(***************************************************************************)
(* The actor execution context of src/lib/actor-webworker.js: the mailbox  *)
(* loop (handleMessage / processNext), the outstanding-effect ring buffer  *)
(* (dispatchAsync, effectApplied, effectFailed), the identity bookkeeping  *)
(* and the fault reporter, driven by the envelopes of self.onmessage.      *)
(*                                                                         *)
(* One action is one task of the worker's event loop: the onmessage handler*)
(* run to completion together with the promise reactions it triggers.      *)
(* self.close() ends the event loop: once closed, no further task runs.    *)
(* The host sends one initialize envelope to a context (at any moment).    *)
(***************************************************************************)
EXTENDS Integers, Sequences, FiniteSets, TLC

\* ---------------------------------------------------------------- bounds
MaxTells == 2        \* tell envelopes the host sends
MaxEffects == 2      \* async effects one behavior invocation requests
Capacity == 2        \* slots of the ring buffer (4048 in the source, line 86)

\* ------------------------------------------------------------ value sets
Undef == "<undefined>"
Behaviors == {1, 2, 3}               \* callable behaviors; 0 is "no behavior"
Factories == {1, 2}                  \* behaviors an initialization factory yields
Values == {"", "go", "42"}           \* payload.value of effectApplied
Reasons == {"boom"}                  \* payload.value of effectFailed
TimedOut == "Promise timed out"
Evil == "evil"                       \* what a behavior writes into identity
ChildNames == {"x"}
ChildAddrs == {"/x", "x"}
Ops == {"fn", "falsy", "bad", "throw", "throwNull", "await"}
\* payload of the initialize envelope whose factory yields behavior b
InitPayload(b) ==
    IF b = 1 THEN [name |-> "a", path |-> "/a", parent |-> "/"]
             ELSE [name |-> "b", path |-> "/a/b", parent |-> "/a"]

VARIABLES
    busy,       \* line 85
    stopped,    \* line 95
    closed,     \* self.close() was called (lines 166, 254)
    f,          \* line 88: current behavior, 0 = undefined
    mailbox,    \* line 87: queue of tell messages
    name, path, parent, children, sender,   \* lines 90-94
    arr, count, \* outstandingEffects (RingBuffer), line 86
    handles,    \* every Deferred created so far, by creation number
    ticks,      \* callbacks scheduled with thread.nextTick (line 148)
    outbox,     \* self.postMessage calls, in order
    pending,    \* behavior invocations suspended on a pending result
    log,        \* history: behavior applications, in order
    active,     \* history: invocations in progress
    peak,       \* history: largest value active ever had
    shadow,     \* history: identity as the protocol handlers alone made it
    unapplied,  \* history: ids of tells consumed without applying a behavior
    factory,    \* history: the behavior the initialization factory produced
    stopReceived, \* history: a stop envelope was handled
    tells,      \* history: tell envelopes received so far
    initialized \* history: the host sent its initialize envelope

vars == <<busy, stopped, closed, f, mailbox, name, path, parent, children,
          sender, arr, count, handles, ticks, outbox, pending, log, active,
          peak, shadow, unapplied, factory, stopReceived, tells, initialized>>

\* The program state as one record, threaded through the handlers.
State ==
    [busy |-> busy, stopped |-> stopped, closed |-> closed, f |-> f,
     mailbox |-> mailbox, name |-> name, path |-> path, parent |-> parent,
     children |-> children, sender |-> sender, arr |-> arr, count |-> count,
     handles |-> handles, ticks |-> ticks, outbox |-> outbox,
     pending |-> pending, log |-> log, active |-> active, peak |-> peak,
     shadow |-> shadow, unapplied |-> unapplied, factory |-> factory]

Commit(s) ==
    /\ busy' = s.busy /\ stopped' = s.stopped /\ closed' = s.closed
    /\ f' = s.f /\ mailbox' = s.mailbox /\ name' = s.name /\ path' = s.path
    /\ parent' = s.parent /\ children' = s.children /\ sender' = s.sender
    /\ arr' = s.arr /\ count' = s.count /\ handles' = s.handles
    /\ ticks' = s.ticks /\ outbox' = s.outbox /\ pending' = s.pending
    /\ log' = s.log /\ active' = s.active /\ peak' = s.peak
    /\ shadow' = s.shadow /\ unapplied' = s.unapplied
    /\ factory' = s.factory

\* A handler's outcome: the state it left and the exception it propagates.
Ok(s) == [s |-> s, exc |-> "none"]
Throw(s, e) == [s |-> s, exc |-> e]

Note(action, index, handle, from) ==
    [action |-> action, index |-> index, handle |-> handle, sender |-> from]

\* An array built element by element (a function on 1..n, as a sequence).
RECURSIVE AsSeq(_, _)
AsSeq(fn, n) == IF n = 0 THEN <<>> ELSE Append(AsSeq(fn, n - 1), fn[n])

\* History: the log entry of message id notes how its invocation ended.
Ended(lg, id, how) ==
    AsSeq([i \in DOMAIN lg |->
              IF lg[i].msg.id = id THEN [lg[i] EXCEPT !.kind = how]
              ELSE lg[i]], Len(lg))

\* ---------------------------------------------------------------- Queue
Enqueue(q, item) == Append(q, item)
IsEmpty(q) == q = <<>>

\* ------------------------------------------------------------- children
\* A Map as a set of <<key, value>> pairs with distinct keys; def = FALSE is
\* the undefined binding of line 94.
NoChildren == [def |-> FALSE, map |-> {}]
EmptyMap == [def |-> TRUE, map |-> {}]
MapDelete(m, k) == {e \in m : e[1] # k}
MapSet(m, k, v) == MapDelete(m, k) \cup {<<k, v>>}

\* '' + name
ToStr(x) == IF x = Undef THEN "undefined" ELSE x

\* ------------------------------------------------------------- Deferred
Done(h) == h.state # "pending"

\* resolve / reject that settle again a promise already settled.
\* C11_SettledOnce does not hold of it.
SettleHandle_Overwrites(hs, h, st, v) ==
    [hs EXCEPT ![h].state = st, ![h].value = v]

\* resolve / reject of a promise: only the first settlement takes effect.
SettleHandle(hs, h, st, v) ==
    IF hs[h].state = "pending"
    THEN [hs EXCEPT ![h].state = st, ![h].value = v]
    ELSE hs

\* ----------------------------------------------------------- RingBuffer
RingAdd(s, value) ==
    LET i == s.count
        prev == s.arr[i]
        c == s.count + 1
    IN [s |-> [s EXCEPT !.arr[i] = value,
                        !.count = IF c >= Capacity THEN 0 ELSE c],
        index |-> i, prev |-> prev]

\* ---------------------------------------------------------- signalFault
\* serializeErr(e) calls Object.getOwnPropertyNames(e), which throws a
\* TypeError when e is null or undefined; otherwise one faulted notification
\* is posted and the context closed.
SignalFault(s, e) ==
    IF e = "null"
    THEN Throw(s, "Error")
    ELSE Ok([s EXCEPT !.outbox = Append(@, Note("faulted", 0, 0, s.path)),
                      !.closed = TRUE])

\* ----------------------------------------------------------------- stop
\* stop without line 170: the stopped flag is not set. C13_FalsyStops does
\* not hold of it.
Stop_NoFlag(s) ==
    [s EXCEPT !.outbox = Append(@, Note("stop", 0, 0, s.path))]

Stop(s) ==
    [s EXCEPT !.stopped = TRUE,
              !.outbox = Append(@, Note("stop", 0, 0, s.path))]

\* -------------------------------------------------------- dispatchAsync
\* A suspended invocation whose awaited handle is rejected ends: its
\* pending result rejects, and the then-callback of line 129 never runs.
Abandon(s, h) ==
    LET gone == {p \in s.pending : p.awaits = h}
        ids == {p.msg.id : p \in gone}
    IN [s EXCEPT !.pending = @ \ gone, !.active = @ - Cardinality(gone),
                 !.log = AsSeq([i \in DOMAIN s.log |->
                                   IF s.log[i].msg.id \in ids
                                   THEN [s.log[i] EXCEPT !.kind = "rejected"]
                                   ELSE s.log[i]], Len(s.log))]

RejectHandle(s, h, reason, isForced) ==
    LET was == s.handles[h].state
        hs == [SettleHandle(s.handles, h, "rejected", reason)
                  EXCEPT ![h].forced = @ + (IF isForced THEN 1 ELSE 0)]
        s1 == [s EXCEPT !.handles = hs]
    IN IF was = "pending" THEN Abandon(s1, h) ELSE s1

\* History kept in a Deferred: whether add() displaced it from its slot
\* while it was pending or settled, and its outcome at that moment.
NoOutcome == [state |-> "none", value |-> Undef]

Evicted(s, h) ==
    [s EXCEPT !.handles[h].evicted =
                  IF s.handles[h].state = "pending" THEN "pending"
                  ELSE "settled",
              !.handles[h].was =
                  [state |-> s.handles[h].state, value |-> s.handles[h].value]]

\* dispatchAsync without the prev.done test of line 145: it rejects whatever
\* it displaces. C8_Displacement does not hold of it.
DispatchAsync_RejectsAlways(s) ==
    LET h == Len(s.handles) + 1
        s1 == [s EXCEPT !.handles =
                  Append(@, [state |-> "pending", value |-> Undef,
                             index |-> s.count, forced |-> 0,
                             evicted |-> "no", was |-> NoOutcome])]
        r == RingAdd(s1, h)
        s2 == IF r.prev # 0
              THEN Evicted(r.s, r.prev)
              ELSE r.s
        s3 == IF r.prev # 0
              THEN RejectHandle(s2, r.prev, TimedOut, TRUE)
              ELSE s2
    IN [s3 EXCEPT !.ticks = Append(@, Note("effect", r.index, h, Undef))]

\* dispatchAsync without lines 145-147: the displaced handle is left as it
\* is. C10_PendingInTable does not hold of it.
DispatchAsync_NoReject(s) ==
    LET h == Len(s.handles) + 1
        s1 == [s EXCEPT !.handles =
                  Append(@, [state |-> "pending", value |-> Undef,
                             index |-> s.count, forced |-> 0,
                             evicted |-> "no", was |-> NoOutcome])]
        r == RingAdd(s1, h)
        s2 == IF r.prev # 0
              THEN Evicted(r.s, r.prev)
              ELSE r.s
    IN [s2 EXCEPT !.ticks = Append(@, Note("effect", r.index, h, Undef))]

DispatchAsync(s) ==
    LET h == Len(s.handles) + 1
        s1 == [s EXCEPT !.handles =
                  Append(@, [state |-> "pending", value |-> Undef,
                             index |-> s.count, forced |-> 0,
                             evicted |-> "no", was |-> NoOutcome])]
        r == RingAdd(s1, h)
        s2 == IF r.prev # 0
              THEN Evicted(r.s, r.prev)
              ELSE r.s
        s3 == IF r.prev # 0 /\ ~Done(s2.handles[r.prev])
              THEN RejectHandle(s2, r.prev, TimedOut, TRUE)
              ELSE s2
    IN [s3 EXCEPT !.ticks = Append(@, Note("effect", r.index, h, Undef))]

RECURSIVE DispatchMany(_, _)
DispatchMany(s, n) ==
    IF n = 0 THEN s ELSE DispatchMany(DispatchAsync(s), n - 1)

\* ------------------------------------------------------------ behaviors
\* A behavior does what the message it is applied to says: it requests
\* msg.effects async effects, then
\*   "fn"        returns the behavior after itself (1, 2, 3, 1, ...)
\*   "falsy"     returns a falsy value
\*   "bad"       returns a truthy value that is not callable
\*   "throw"     throws an Error;  "throwNull" throws null
\*   "await"     returns a pending result that awaits the first effect it
\*               requested and settles from the reply value: "go" gives
\*               the behavior after itself, any other value is returned
\*               as it is.
\* With msg.assign it also overwrites name, path, parent and children:
\* before it returns ("fn" .. "throwNull"), or after it resumed ("await").
EvilChildren == [def |-> TRUE, map |-> {<<Evil, Evil>>}]

Assign(s) ==
    [s EXCEPT !.name = Evil, !.path = Evil, !.parent = Evil,
              !.children = EvilChildren]

Identity(s) == [path |-> s.path, parent |-> s.parent, children |-> s.children]

Fn(b) == [kind |-> "function", b |-> b]
Falsy == [kind |-> "falsy", b |-> 0]
Other == [kind |-> "other", b |-> 0]

NextBehavior(b) == (b % 3) + 1

SyncResult(b, msg) ==
    CASE msg.op = "fn" -> Fn(NextBehavior(b))
      [] msg.op = "falsy" -> Falsy
      [] OTHER -> Other

SettledResult(b, v) ==
    CASE v = "go" -> Fn(NextBehavior(b))
      [] v = "" -> Falsy
      [] OTHER -> Other

\* The synchronous part of f.call({}, msg.payload.message), line 123.
Invoke(s, msg) ==
    LET s1 == [s EXCEPT
                 !.log = Append(@, [msg |-> msg, beh |-> s.f, next |-> 0,
                                    kind |-> "none",
                                    clean |-> Identity(s) = s.shadow]),
                 !.active = @ + 1,
                 !.peak = IF s.active + 1 > @ THEN s.active + 1 ELSE @]
        s2 == DispatchMany(s1, msg.effects)
    IN IF msg.assign /\ msg.op # "await" THEN Assign(s2) ELSE s2

\* next.then(result => processNext(result)), line 129: the invocation stays
\* suspended until the handle it awaits settles; a handle already rejected
\* makes the pending result reject.
Then(s, msg, b, h) ==
    IF s.handles[h].state = "rejected"
    THEN [s EXCEPT !.active = @ - 1,
                   !.log = Ended(s.log, msg.id, "rejected")]
    ELSE [s EXCEPT !.pending =
             @ \cup {[msg |-> msg, beh |-> b, awaits |-> h]}]

\* ------------------------------------------- processNext, handleMessage
RECURSIVE ProcessNext(_, _, _)
RECURSIVE HandleMessage(_, _)

\* processNext without the assignment of line 99. C3_BehaviorChain does not
\* hold of it.
ProcessNext_KeepsF(s, next, id) ==
    LET s0 == [s EXCEPT !.active = @ - 1,
                        !.log = Ended(s.log, id, next.kind)]
    IN IF next.kind = "function"
       THEN LET s1 == [s0 EXCEPT
                         !.log = AsSeq([i \in DOMAIN s0.log |->
                                    IF s0.log[i].msg.id = id
                                    THEN [s0.log[i] EXCEPT !.next = next.b]
                                    ELSE s0.log[i]], Len(s0.log))]
            IN IF ~IsEmpty(s1.mailbox)
               THEN HandleMessage([s1 EXCEPT !.mailbox = Tail(@)],
                                  Head(s1.mailbox))
               ELSE Ok([s1 EXCEPT !.busy = FALSE])
       ELSE IF next.kind = "falsy"
       THEN Ok(Stop(s0))
       ELSE Throw(s0, "Error")

\* processNext without lines 100-102: it goes idle and leaves the mailbox as
\* it is. C16_EventuallyApplied does not hold of it.
ProcessNext_NoDequeue(s, next, id) ==
    LET s0 == [s EXCEPT !.active = @ - 1,
                        !.log = Ended(s.log, id, next.kind)]
    IN IF next.kind = "function"
       THEN Ok([s0 EXCEPT !.f = next.b, !.busy = FALSE])
       ELSE IF next.kind = "falsy"
       THEN Ok(Stop(s0))
       ELSE Throw(s0, "Error")

ProcessNext(s, next, id) ==
    LET s0 == [s EXCEPT !.active = @ - 1,
                        !.log = Ended(s.log, id, next.kind)]
    IN IF next.kind = "function"
       THEN LET s1 == [s0 EXCEPT
                         !.f = next.b,
                         !.log = AsSeq([i \in DOMAIN s0.log |->
                                    IF s0.log[i].msg.id = id
                                    THEN [s0.log[i] EXCEPT !.next = next.b]
                                    ELSE s0.log[i]], Len(s0.log))]
            IN IF ~IsEmpty(s1.mailbox)
               THEN HandleMessage([s1 EXCEPT !.mailbox = Tail(@)],
                                  Head(s1.mailbox))
               ELSE Ok([s1 EXCEPT !.busy = FALSE])
       ELSE IF next.kind = "falsy"
       THEN Ok(Stop(s0))
       ELSE Throw(s0, "Error")

HandleMessage(s, msg) ==
    LET s0 == [s EXCEPT !.busy = TRUE]
    IN IF s0.f = 0
       THEN Ok([s0 EXCEPT !.unapplied = @ \cup {msg.id}])
       ELSE IF ~s0.children.def             \* children.entries() throws
       THEN SignalFault([s0 EXCEPT !.unapplied = @ \cup {msg.id}], "Error")
       ELSE
         LET _name == ToStr(s0.name)
             _path == s0.path
             _parent == s0.parent
             _children == s0.children
             s1 == Invoke([s0 EXCEPT !.sender = msg.sender], msg)
         IN IF msg.op = "throw"
            THEN SignalFault([s1 EXCEPT !.active = @ - 1,
                                        !.log = Ended(s1.log, msg.id, "threw")],
                             "Error")
            ELSE IF msg.op = "throwNull"
            THEN SignalFault([s1 EXCEPT !.active = @ - 1,
                                        !.log = Ended(s1.log, msg.id, "threw")],
                             "null")
            ELSE
              LET s2 == [s1 EXCEPT !.name = _name, !.path = _path,
                                   !.parent = _parent,
                                   !.children = _children]
              IN IF msg.op = "await"
                 THEN Ok(Then(s2, msg, s0.f, Len(s0.handles) + 1))
                 ELSE LET r == ProcessNext(s2, SyncResult(s0.f, msg),
                                           msg.id)
                      IN IF r.exc # "none"
                         THEN SignalFault(r.s, r.exc)
                         ELSE r

\* A handle settled with value v: the invocation awaiting it resumes, its
\* pending result settles and the then-callback runs processNext. An error
\* thrown inside that callback is caught by nobody.
Resume(s, h, v) ==
    IF \E p \in s.pending : p.awaits = h
    THEN LET p == CHOOSE q \in s.pending : q.awaits = h
             s1 == [s EXCEPT !.pending = @ \ {p}]
             s2 == IF p.msg.assign THEN Assign(s1) ELSE s1
         IN ProcessNext(s2, SettledResult(p.beh, v), p.msg.id).s
    ELSE s

\* The try/catch around the body of self.onmessage, lines 198 and 258-260.
OnMessage(r) ==
    IF r.exc = "none" THEN r.s ELSE SignalFault(r.s, r.exc).s

\* ------------------------------------------------------------ envelopes
Init ==
    /\ busy = FALSE /\ stopped = FALSE /\ closed = FALSE /\ f = 0
    /\ mailbox = <<>>
    /\ name = Undef /\ path = Undef /\ parent = Undef /\ sender = Undef
    /\ children = NoChildren
    /\ arr = [i \in 0..(Capacity - 1) |-> 0] /\ count = 0
    /\ handles = <<>> /\ ticks = <<>> /\ outbox = <<>>
    /\ pending = {} /\ log = <<>> /\ active = 0 /\ peak = 0
    /\ shadow = [path |-> Undef, parent |-> Undef, children |-> NoChildren]
    /\ unapplied = {} /\ factory = 0
    /\ stopReceived = FALSE /\ tells = 0 /\ initialized = FALSE

\* A Deferred that is settled, is in no slot and is awaited by nobody is
\* referenced by nothing; the next task no longer sees it.
Collected ==
    [state |-> "collected", value |-> Undef, index |-> 0, forced |-> 0,
     evicted |-> "no", was |-> NoOutcome]

Live(s, h) ==
    \/ s.handles[h].state = "pending"
    \/ \E i \in DOMAIN s.arr : s.arr[i] = h
    \/ \E p \in s.pending : p.awaits = h

Collect(s) ==
    [s EXCEPT !.handles =
        AsSeq([h \in DOMAIN s.handles |->
                  IF Live(s, h) THEN s.handles[h] ELSE Collected],
              Len(s.handles))]

Start == Collect(State)

\* The end of a task: the callbacks scheduled with thread.nextTick run,
\* unless the context was closed (lines 148-150).
EndTask(s) ==
    IF s.closed
    THEN s
    ELSE [s EXCEPT !.ticks = <<>>,
                   !.outbox = s.outbox \o
                       AsSeq([i \in DOMAIN s.ticks |->
                                 [s.ticks[i] EXCEPT !.sender = s.path]],
                             Len(s.ticks))]

\* case 'tell' without the else branch of lines 246-248: a tell that finds
\* the context busy is lost. C1_Fifo does not hold of it.
TellHandler_DropsWhenBusy(s, msg) ==
    IF ~s.stopped
    THEN IF ~s.busy
         THEN HandleMessage(s, msg)
         ELSE Ok(s)
    ELSE Ok([s EXCEPT !.unapplied = @ \cup {msg.id}])

\* case 'tell' without the busy test of line 244. C2_OneInvocation does not
\* hold of it.
TellHandler_IgnoresBusy(s, msg) ==
    IF ~s.stopped
    THEN HandleMessage(s, msg)
    ELSE Ok([s EXCEPT !.unapplied = @ \cup {msg.id}])

\* case 'tell' that enqueues whether or not the context is busy.
\* C18_IdleMailboxEmpty does not hold of it.
TellHandler_AlwaysEnqueues(s, msg) ==
    IF ~s.stopped
    THEN Ok([s EXCEPT !.mailbox = Enqueue(s.mailbox, msg)])
    ELSE Ok([s EXCEPT !.unapplied = @ \cup {msg.id}])

TellHandler(s, msg) ==
    IF ~s.stopped
    THEN IF ~s.busy
         THEN HandleMessage(s, msg)
         ELSE Ok([s EXCEPT !.mailbox = Enqueue(s.mailbox, msg)])
    ELSE Ok([s EXCEPT !.unapplied = @ \cup {msg.id}])

Tell(op, assign, n) ==
    /\ ~closed /\ tells < MaxTells
    /\ op = "await" => n = 1
    /\ op = "falsy" => (n <= 1 /\ ~assign)
    /\ op = "throw" => (n <= 1 /\ ~assign)
    /\ op \in {"bad", "throwNull"} => (n = 0 /\ ~assign)
    /\ (op = "fn" /\ assign) => n = 0
    /\ LET msg == [id |-> tells + 1, sender |-> "/s", op |-> op,
                   assign |-> assign, effects |-> n]
       IN Commit(EndTask(OnMessage(TellHandler(Start, msg))))
    /\ tells' = tells + 1
    /\ UNCHANGED <<initialized, stopReceived>>

InitializeHandler(s, kind, b) ==
    IF kind = "evalThrows"
    THEN SignalFault(s, "Error")
    ELSE LET p == InitPayload(b)
             s1 == [s EXCEPT !.f = b, !.factory = b,
                             !.name = p.name, !.path = p.path,
                             !.parent = p.parent, !.children = EmptyMap,
                             !.shadow = [path |-> p.path, parent |-> p.parent,
                                         children |-> EmptyMap]]
         IN IF kind = "bindThrows" THEN SignalFault(s1, "Error") ELSE Ok(s1)

Initialize(kind, b) ==
    /\ ~closed /\ ~initialized
    /\ kind # "ok" => b = 1
    /\ Commit(EndTask(OnMessage(InitializeHandler(Start, kind, b))))
    /\ initialized' = TRUE
    /\ UNCHANGED <<tells, stopReceived>>

ChildStoppedHandler(s, c) ==
    IF ~s.children.def
    THEN Throw(s, "Error")
    ELSE Ok([s EXCEPT !.children.map = MapDelete(s.children.map, c),
                      !.shadow.children.map =
                          MapDelete(s.shadow.children.map, c)])

ChildSpawnedHandler(s, n, c) ==
    IF ~s.children.def
    THEN Throw(s, "Error")
    ELSE ChildStoppedHandler(
            [s EXCEPT !.children.map = MapSet(s.children.map, n, c),
                      !.shadow.children.map =
                          MapSet(s.shadow.children.map, n, c)], c)

ChildSpawned(n, c) ==
    /\ ~closed
    /\ Commit(EndTask(OnMessage(ChildSpawnedHandler(Start, n, c))))
    /\ UNCHANGED <<tells, initialized, stopReceived>>

ChildStopped(c) ==
    /\ ~closed
    /\ Commit(EndTask(OnMessage(ChildStoppedHandler(Start, c))))
    /\ UNCHANGED <<tells, initialized, stopReceived>>

\* case 'effectApplied' without line 228: the slot keeps its handle.
\* C7_EffectRoundTrip does not hold of it.
EffectAppliedHandler_KeepsSlot(s, index, v) ==
    LET effect == s.arr[index]
    IN IF effect # 0
       THEN LET s2 == [s EXCEPT !.handles =
                          SettleHandle(s.handles, effect, "resolved", v)]
            IN IF s.handles[effect].state = "pending"
               THEN Resume(s2, effect, v)
               ELSE s2
       ELSE s

EffectAppliedHandler(s, index, v) ==
    LET effect == s.arr[index]
        s1 == [s EXCEPT !.arr[index] = 0]
    IN IF effect # 0
       THEN LET s2 == [s1 EXCEPT !.handles =
                          SettleHandle(s1.handles, effect, "resolved", v)]
            IN IF s1.handles[effect].state = "pending"
               THEN Resume(s2, effect, v)
               ELSE s2
       ELSE s1

EffectApplied(index, v) ==
    /\ ~closed
    /\ Commit(EndTask(EffectAppliedHandler(Start, index, v)))
    /\ UNCHANGED <<tells, initialized, stopReceived>>

EffectFailedHandler(s, index, v) ==
    LET effect == s.arr[index]
    IN IF effect # 0 THEN RejectHandle(s, effect, v, FALSE) ELSE s

EffectFailed(index, v) ==
    /\ ~closed
    /\ Commit(EndTask(EffectFailedHandler(Start, index, v)))
    /\ UNCHANGED <<tells, initialized, stopReceived>>

\* case 'stop' without self.close() of line 254. C6_StopIsFinal does not
\* hold of it.
StopEnvelopeHandler_NoClose(s) == [s EXCEPT !.stopped = TRUE]

StopEnvelopeHandler(s) == [s EXCEPT !.stopped = TRUE, !.closed = TRUE]

StopEnvelope ==
    /\ ~closed
    /\ Commit(EndTask(StopEnvelopeHandler(Start)))
    /\ stopReceived' = TRUE
    /\ UNCHANGED <<tells, initialized>>

Next ==
    \/ \E op \in Ops, assign \in BOOLEAN, n \in 0..MaxEffects :
          Tell(op, assign, n)
    \/ \E kind \in {"ok", "evalThrows", "bindThrows"}, b \in Factories :
          Initialize(kind, b)
    \/ \E n \in ChildNames, c \in ChildAddrs : ChildSpawned(n, c)
    \/ \E c \in ChildNames \cup ChildAddrs : ChildStopped(c)
    \/ \E i \in 0..(Capacity - 1), v \in Values : EffectApplied(i, v)
    \/ \E i \in 0..(Capacity - 1), v \in Reasons : EffectFailed(i, v)
    \/ StopEnvelope

Spec == Init /\ [][Next]_vars

\* ================================================================ claims
Faulted == {i \in DOMAIN outbox : outbox[i].action = "faulted"}
Requests == {i \in DOMAIN outbox : outbox[i].action = "effect"}
InTable(h) == \E i \in DOMAIN arr : arr[i] = h

C2_OneInvocation ==
    /\ peak <= 1
    /\ active <= 1
    /\ Cardinality(pending) <= 1

C2_Witness ==
    /\ Cardinality(pending) = 1 /\ Len(mailbox) = 1 /\ active = 1

\* C3: after the one initialize, the first handled message is applied to the
\* behavior the factory produced and every later one to the behavior the
\* previous invocation returned or settled to.
C3_BehaviorChain ==
    \A i \in DOMAIN log :
        log[i].beh = IF i = 1 THEN factory ELSE log[i - 1].next

C3_Witness ==
    /\ Len(log) = 2 /\ log[1].beh = factory
    /\ log[1].next = NextBehavior(factory) /\ log[2].beh = log[1].next

\* C4 (as claimed): every invocation sees the path, parent and children the
\* protocol handlers produced, whatever earlier invocations assigned.
C4_IdentityIsolated ==
    \A i \in DOMAIN log : log[i].clean

\* C5 (as claimed): once an invocation has thrown, exactly one faulted
\* notification was emitted, the context is terminated and no later tell is
\* applied.
C5_ThrowFaultsOnce ==
    \A i \in DOMAIN log :
        log[i].msg.op \in {"throw", "throwNull"} =>
            /\ Cardinality(Faulted) = 1
            /\ closed
            /\ i = Len(log)

\* C6: in the task that handles a stop envelope and in every task after it,
\* nothing is applied to a behavior, no behavior is installed, nothing is
\* taken from the mailbox and nothing is posted to the host.
C6_StopIsFinal ==
    [][(stopReceived \/ stopReceived')
          => (log' = log /\ f' = f /\ outbox' = outbox
              /\ mailbox' = mailbox)]_vars

C6_Witness ==
    /\ stopReceived /\ closed /\ stopped
    /\ Len(mailbox) >= 1 /\ Cardinality(pending) = 1

Pending(h) == handles[h].state = "pending"
Sent == outbox \o ticks      \* requests posted, then those still scheduled
RequestsFor(h) ==
    {k \in DOMAIN Sent : Sent[k].action = "effect" /\ Sent[k].handle = h}

\* C7: an async effect request takes one slot, returns a pending result and
\* one request carrying the slot's index is posted (or scheduled to be
\* posted) for it; effectApplied for a slot holding a pending handle
\* resolves that handle to the reply value and takes it out of the table;
\* effectApplied for an empty slot changes no handle, leaves the table as it
\* is and raises no fault.
C7_Allocated ==
    \A h \in DOMAIN handles :
        InTable(h) =>
            /\ Cardinality({i \in DOMAIN arr : arr[i] = h}) = 1
            /\ arr[handles[h].index] = h
            /\ Cardinality(RequestsFor(h)) = 1
            /\ \A k \in RequestsFor(h) : Sent[k].index = handles[h].index

\* What case 'effectApplied' with index i and value v does in this state.
C7_Reply(i, v) ==
    LET h == arr[i]
        s == EndTask(EffectAppliedHandler(Start, i, v))
    IN IF h = 0
       THEN /\ s.arr = arr /\ s.outbox = outbox /\ s.closed = closed
            /\ Len(s.handles) = Len(handles)
            /\ \A k \in DOMAIN handles :
                  s.handles[k] = handles[k] \/ s.handles[k] = Collected
       ELSE Pending(h) =>
            /\ s.handles[h].state = "resolved"
            /\ s.handles[h].value = v
            /\ \A j \in DOMAIN arr : s.arr[j] # h

\* A handle created in a task is pending and in its slot when the task
\* ends, unless a later request of the same task displaced it.
C7_Requested ==
    \A h \in DOMAIN handles' :
        (h > Len(handles) /\ handles'[h].evicted = "no") =>
            /\ handles'[h].state = "pending"
            /\ arr'[handles'[h].index] = h

C7_EffectRoundTrip ==
    /\ []C7_Allocated
    /\ [][C7_Requested]_vars
    /\ [](~closed => \A i \in DOMAIN arr, v \in Values : C7_Reply(i, v))

\* The reply 42 resolved a handle, which left the table.
C7_Witness ==
    \E h \in DOMAIN handles :
        /\ handles[h].state = "resolved" /\ handles[h].value = "42"
        /\ ~InTable(h)
        /\ Cardinality(RequestsFor(h)) = 1

\* C8: a handle displaced from its slot while pending is rejected once, with
\* the timed-out reason; one displaced after it settled keeps its outcome;
\* a handle that was not displaced, the newly installed one included, is
\* never rejected by dispatchAsync.
C8_Displacement ==
    \A h \in DOMAIN handles :
        LET d == handles[h]
        IN /\ d.evicted = "pending" =>
                (d.state = "rejected" /\ d.value = TimedOut /\ d.forced = 1)
           /\ d.evicted = "settled" =>
                (d.forced = 0 /\ d.state = d.was.state
                 /\ d.value = d.was.value)
           /\ d.evicted = "no" =>
                (d.forced = 0 /\ ~(d.state = "rejected" /\ d.value = TimedOut))

\* A pending handle and a settled one were displaced, and the handles that
\* displaced them are pending.
C8_Witness ==
    /\ \E h \in DOMAIN handles : handles[h].evicted = "pending"
    /\ \E h \in DOMAIN handles :
          handles[h].evicted = "settled" /\ handles[h].was.state = "rejected"
    /\ \A i \in DOMAIN arr : arr[i] # 0 /\ Pending(arr[i])

\* C9 (as claimed): a reply to a request whose slot has since been given to
\* a newer request settles no handle and raises no fault.
C9_StaleReplyIgnored ==
    [][\A k \in Requests, v \in Values \cup Reasons :
          LET r == outbox[k]
          IN (/\ arr[r.index] # 0 /\ arr[r.index] # r.handle
              /\ (EffectApplied(r.index, v) \/ EffectFailed(r.index, v)))
             => /\ \A h \in DOMAIN handles : Pending(h) => handles'[h].state = "pending"
                /\ closed' = closed /\ outbox' = outbox]_vars

\* C10: the pending handles are never more than the table has slots, and
\* each of them is in a slot.
C10_PendingInTable ==
    /\ Cardinality({h \in DOMAIN handles : Pending(h)}) <= Capacity
    /\ \A h \in DOMAIN handles : Pending(h) => InTable(h)

\* The table is full of pending handles after a pending one was displaced.
C10_Witness ==
    /\ \A i \in DOMAIN arr : arr[i] # 0 /\ Pending(arr[i])
    /\ \E h \in DOMAIN handles : handles[h].evicted = "pending"

\* C11: a handle that is settled keeps its outcome in every later task, and
\* an effectApplied or effectFailed for a slot that holds a settled handle
\* (one left there by effectFailed) leaves the outcome as it is, posts
\* nothing and does not close the context.
C11_Same(s, h) ==
    /\ s.handles[h].state = handles[h].state
    /\ s.handles[h].value = handles[h].value
    /\ s.closed = closed /\ s.outbox = outbox

C11_Kept ==
    \A h \in DOMAIN handles :
        Done(handles[h]) =>
            \/ handles'[h] = Collected
            \/ /\ handles'[h].state = handles[h].state
               /\ handles'[h].value = handles[h].value

C11_Replies ==
    \A i \in DOMAIN arr :
        (~closed /\ arr[i] # 0 /\ Done(handles[arr[i]])) =>
            /\ \A v \in Values :
                  C11_Same(EndTask(EffectAppliedHandler(Start, i, v)), arr[i])
            /\ \A r \in Reasons :
                  C11_Same(EndTask(EffectFailedHandler(Start, i, r)), arr[i])

C11_SettledOnce ==
    /\ [][C11_Kept]_vars
    /\ []C11_Replies

\* A handle rejected by effectFailed stayed in its slot, was displaced by a
\* later request and still has the outcome effectFailed gave it.
C11_Witness ==
    \E h \in DOMAIN handles :
        /\ handles[h].evicted = "settled"
        /\ handles[h].was = [state |-> "rejected", value |-> "boom"]
        /\ handles[h].state = "rejected" /\ handles[h].value = "boom"
        /\ handles[h].forced = 0

\* C12 (as claimed): once the value taken as next was neither callable nor
\* falsy, the context has emitted a faulted notification and is terminated.
C12_BadNextFaults ==
    \A i \in DOMAIN log :
        log[i].kind = "other" => (Cardinality(Faulted) >= 1 /\ closed)

Stops == {i \in DOMAIN outbox : outbox[i].action = "stop"}

\* C13: once an invocation has ended with a falsy next, the context is
\* stopped, exactly one stop notification was sent and that invocation is
\* the last one; a tell received while stopped starts no invocation, leaves
\* the mailbox as it is and posts nothing.
C13_Stopped ==
    \A i \in DOMAIN log :
        log[i].kind = "falsy" =>
            /\ stopped
            /\ Cardinality(Stops) = 1
            /\ i = Len(log)

C13_TellDropped ==
    (stopped /\ tells' = tells + 1) =>
        /\ log' = log /\ mailbox' = mailbox /\ outbox' = outbox
        /\ active' = active /\ pending' = pending /\ f' = f

C13_FalsyStops ==
    /\ []C13_Stopped
    /\ [][C13_TellDropped]_vars

\* An invocation settled to a falsy next, and a tell received after that
\* was dropped.
C13_Witness ==
    /\ Len(log) = 1 /\ log[1].kind = "falsy" /\ log[1].msg.op = "await"
    /\ stopped /\ ~closed
    /\ log[1].msg.id + 1 \in unapplied

\* C14 (as claimed): in an initialized context, childSpawned {name: n,
\* child: c} leaves children mapping n to c and every entry under another
\* name as it was.
C14_SpawnRecords ==
    (~closed /\ children.def) =>
        \A n \in ChildNames \cup ChildAddrs, c \in ChildAddrs :
            LET s == EndTask(OnMessage(ChildSpawnedHandler(Start, n, c)))
            IN /\ <<n, c>> \in s.children.map
               /\ \A e \in children.map :
                     e[1] # n => e \in s.children.map
               /\ \A e \in s.children.map :
                     e[1] # n => e \in children.map

\* C15 (as claimed): in an initialized context, childStopped {child: c}
\* leaves no entry of children whose address is c.
C15_StopRemoves ==
    (~closed /\ children.def) =>
        \A c \in ChildAddrs :
            LET s == EndTask(OnMessage(ChildStoppedHandler(Start, c)))
            IN \A e \in s.children.map : e[2] # c

\* The pending result a suspended invocation returned settles: the host
\* answered the effect request it awaits (lines 225-241) or the handle was
\* displaced (line 146), and the reaction of line 129 ran.
Settle ==
    /\ pending # {} /\ ~closed
    /\ pending' \in SUBSET pending /\ pending' # pending

\* The worker's event loop when no pending result stays unsettled for ever.
LiveSpec == Init /\ [][Next]_vars /\ WF_pending(Settle)

\* What C16 assumes away: a stop or a fault, a tell received before
\* initialize or while stopped, an invocation that threw or whose next was
\* not a behavior, a pending result that rejected.
Broken ==
    \/ stopped \/ closed \/ unapplied # {}
    \/ \E i \in DOMAIN log :
          log[i].kind \in {"falsy", "other", "threw", "rejected"}

Applied(id) == \E i \in DOMAIN log : log[i].msg.id = id

\* C16: under a host that eventually replies, every tell received is
\* eventually applied to a behavior, unless one of the events C16 assumes
\* away happens.
C16_EventuallyApplied ==
    \A id \in 1..MaxTells :
        [](tells >= id => <>(Applied(id) \/ Broken))

\* A tell that waited in the mailbox behind a suspended invocation was
\* applied, and nothing C16 assumes away has happened.
C16_Witness ==
    /\ ~Broken /\ tells = 2 /\ Len(log) = 2
    /\ log[1].msg.op = "await" /\ log[1].kind = "function"
    /\ log[2].msg.id = 2 /\ mailbox = <<>>

\* C17 (as claimed): while the context is neither stopped nor terminated,
\* busy is true exactly when a behavior invocation is in progress (running,
\* or suspended on a pending result that has not settled).
C17_BusyIffInvocation ==
    (~stopped /\ ~closed) => (busy <=> active = 1)

\* C18: whenever the context is idle the mailbox is empty (a tell is
\* enqueued only while busy, and processNext goes idle only when it finds
\* the mailbox empty, dequeuing only when it is not).
C18_IdleMailboxEmpty ==
    ~busy => IsEmpty(mailbox)

\* The loop went idle, the mailbox empty, after two tells were applied, the
\* first by an invocation that suspended.
C18_Witness ==
    /\ ~busy /\ ~stopped /\ ~closed /\ IsEmpty(mailbox)
    /\ Len(log) = 2 /\ log[1].msg.op = "await" /\ log[2].kind = "function"

\* C19 (as claimed): a call of dispatchAsync in an initialized context
\* force-rejects a handle only if, right before the call, every slot of the
\* table holds an unsettled handle.
C19_RejectsOnlyWhenFull ==
    (~closed /\ ~stopped /\ f # 0) =>
        LET s == DispatchAsync(Start)
        IN (\E h \in DOMAIN handles :
               s.handles[h].forced > handles[h].forced)
           => \A i \in DOMAIN arr : arr[i] # 0 /\ Pending(arr[i])

Terminal == {i \in DOMAIN outbox : outbox[i].action \in {"stop", "faulted"}}

\* C20 (as claimed): at most one stop or faulted notification is ever sent,
\* and once it has been sent no envelope makes the context post anything or
\* change its behavior, identity, mailbox or effect table.
C20_Frozen ==
    Terminal # {} =>
        /\ outbox' = outbox /\ f' = f /\ mailbox' = mailbox
        /\ name' = name /\ path' = path /\ parent' = parent
        /\ children' = children
        /\ arr' = arr /\ count' = count

C20_TerminalIsFinal ==
    /\ [](Cardinality(Terminal) <= 1)
    /\ [][C20_Frozen]_vars

====
